---- MODULE Spec2Model ----
(***************************************************************************)
(* Model of ask_rs (src/src/main.rs): the persisted conversation, the      *)
(* completion call (perform_request / process_response) and the agent loop *)
(* (handle_recursive_mode).                                                *)
(*                                                                         *)
(* Text.  A Rust String is modelled as a sequence of lexemes.  A lexeme is *)
(* a piece of text that is matched as a whole: the two markers "DONE" and  *)
(* "COMMAND:", the white space characters " ", "\t", "\r" and "\n", and    *)
(* words that share no character run with a marker.  On such sequences     *)
(* str::contains / str::find of a marker is the search for the marker      *)
(* lexeme.  A byte string (the captured stdout / stderr of a command) is a *)
(* sequence of byte units: an ASCII lexeme stands for its own bytes, and   *)
(* "0xC3", "0xA9", "0xFF" ... are single non-ASCII bytes.                  *)
(***************************************************************************)
EXTENDS Integers, Sequences, FiniteSets, TLC

(***************************************************************************)
(* Bounds of the model.                                                    *)
(***************************************************************************)
\* completion calls sent in one behaviour (all invocations together)
MaxCalls == 3
\* length of the replies enumerated for the directive extraction
MaxReplyLen == 4

(***************************************************************************)
(* Program constants.                                                      *)
(***************************************************************************)
DONE == "DONE"
COMMAND == "COMMAND:"
\* the reasoning-family infix tested by MODEL.contains("o1-")
O1 == "o1-"

\* const MODEL: the build's model name.  The source sets "o1-mini"; the
\* second name keeps the branches for the other model family alive.
Models == { <<"o1-", "mini">>, <<"gpt-", "4o">> }

PRIMING == <<"You are ChatConcise, ... DON'T BE LAZY. ... DO NOT USE MARKDOWN.">>

(***************************************************************************)
(* str helpers                                                             *)
(***************************************************************************)
\* str::contains(pat) for a one-lexeme pattern
Contains(s, pat) == \E i \in 1..Len(s) : s[i] = pat

\* a slip for the search: another spelling of the marker is looked for
FindOtherMarker(s, pat) == 0

\* str::find(pat): index of the first occurrence (0 stands for None)
Find(s, pat) ==
    IF Contains(s, pat)
    THEN CHOOSE i \in 1..Len(s) : s[i] = pat /\ \A j \in 1..(i-1) : s[j] # pat
    ELSE 0

\* char::is_whitespace on lexemes
IsWhitespace(c) == c \in {" ", "\t", "\r", "\n"}


\* str::lines().next(), for a text that is not empty: the text before the
\* first "\n", without a "\r" that ends it
FirstLine(s) ==
    LET nl == Find(s, "\n")
        raw == IF nl = 0 THEN s ELSE SubSeq(s, 1, nl - 1)
    IN  IF nl # 0 /\ Len(raw) > 0 /\ raw[Len(raw)] = "\r"
        THEN SubSeq(raw, 1, Len(raw) - 1)
        ELSE raw

\* a slip for trim_start_matches: removes one occurrence of the prefix only
StripPrefixOnce(s, pat) ==
    IF Len(s) > 0 /\ s[1] = pat THEN Tail(s) ELSE s

\* str::trim_start_matches(pat): removes the prefix repeatedly
RECURSIVE TrimStartMatches(_, _)
TrimStartMatches(s, pat) ==
    IF Len(s) > 0 /\ s[1] = pat THEN TrimStartMatches(Tail(s), pat) ELSE s

RECURSIVE TrimStart(_)
TrimStart(s) ==
    IF Len(s) > 0 /\ IsWhitespace(s[1]) THEN TrimStart(Tail(s)) ELSE s

RECURSIVE TrimEnd(_)
TrimEnd(s) ==
    IF Len(s) > 0 /\ IsWhitespace(s[Len(s)])
    THEN TrimEnd(SubSeq(s, 1, Len(s) - 1))
    ELSE s

\* str::trim()
Trim(s) == TrimEnd(TrimStart(s))

\* lines 344-346: the command of a response that holds the directive marker
ExtractCommand(response) ==
    LET cmd_start == Find(response, COMMAND)
        cmd_text == FirstLine(SubSeq(response, cmd_start, Len(response)))
    IN  Trim(TrimStartMatches(cmd_text, COMMAND))

(***************************************************************************)
(* Captured output: bytes to text                                          *)
(***************************************************************************)
\* the bytes a stream is made of: ASCII lexemes, the lead byte C3, the
\* continuation byte A9 and the byte FF, which occurs in no UTF-8 text
IsAsciiUnit(b) == b \notin {"0xC3", "0xA9", "0xFF"}

\* a slip for from_utf8_lossy: invalid bytes are dropped, not replaced
RECURSIVE FromUtf8Dropping(_)
FromUtf8Dropping(bytes) ==
    IF bytes = <<>> THEN <<>>
    ELSE IF IsAsciiUnit(bytes[1]) THEN <<bytes[1]>> \o FromUtf8Dropping(Tail(bytes))
    ELSE IF Len(bytes) >= 2 /\ bytes[1] = "0xC3" /\ bytes[2] = "0xA9"
         THEN <<"U+00E9">> \o FromUtf8Dropping(Tail(Tail(bytes)))
    ELSE FromUtf8Dropping(Tail(bytes))

\* String::from_utf8_lossy: ASCII is kept, the two-byte sequence C3 A9 is
\* the character U+00E9, every byte that starts no valid sequence becomes
\* the replacement character U+FFFD
RECURSIVE FromUtf8Lossy(_)
FromUtf8Lossy(bytes) ==
    IF bytes = <<>> THEN <<>>
    ELSE IF IsAsciiUnit(bytes[1]) THEN <<bytes[1]>> \o FromUtf8Lossy(Tail(bytes))
    ELSE IF Len(bytes) >= 2 /\ bytes[1] = "0xC3" /\ bytes[2] = "0xA9"
         THEN <<"U+00E9">> \o FromUtf8Lossy(Tail(Tail(bytes)))
    ELSE <<"U+FFFD">> \o FromUtf8Lossy(Tail(bytes))

\* the UTF-8 bytes of a String (str::as_bytes); the three bytes of U+FFFD
\* are one unit
RECURSIVE AsBytes(_)
AsBytes(s) ==
    IF s = <<>> THEN <<>>
    ELSE (CASE s[1] = "U+00E9" -> <<"0xC3", "0xA9">>
            [] s[1] = "U+FFFD" -> <<"0xEF 0xBF 0xBD">>
            [] OTHER -> <<s[1]>>) \o AsBytes(Tail(s))

(***************************************************************************)
(* The texts the program composes                                          *)
(***************************************************************************)
\* line 329
DirectivePrompt(user_input) ==
    <<"Original task: ">> \o user_input \o
    <<". Suggest the next command to run. Format your response as: ",
      COMMAND, " <command> followed by an explanation. Or say ",
      DONE, " if the task is complete.">>

\* line 350
ApprovalPrompt(command) == <<"\n", "\n", "Run command: ">> \o command

\* lines 359-362
CommandResult(stdout, stderr) ==
    <<"Command output:", "\n", "stdout:", "\n">> \o FromUtf8Lossy(stdout)
        \o <<"\n", "stderr:", "\n">> \o FromUtf8Lossy(stderr)

\* a slip for line 371: the error is left out
SpawnFailureSilent(e) == <<"Command failed: ">>

\* line 371
SpawnFailure(e) == <<"Command failed: ">> \o e

\* a slip for the rejection text: the comment is left out
RejectionWithoutComment(comment) ==
    <<"Command was rejected by user.", "\n", "FEEDBACK: ">> \o
    <<"\n", "\n", "Please suggest an alternative.">>

\* lines 381-384
RejectionInput(comment) ==
    <<"Command was rejected by user.", "\n", "FEEDBACK: ">> \o comment \o
    <<"\n", "\n", "Please suggest an alternative.">>

(***************************************************************************)
(* Message, ConversationState and the transcript file                      *)
(***************************************************************************)
Message(role, content) == [role |-> role, content |-> content]

\* a slip for the role rule: the priming message is always a system message
AlwaysSystemRole(model) == "system"

\* lines 98-102
InitialRole(model) == IF Contains(model, O1) THEN "user" ELSE "system"

\* lines 97-108
InitialState(model) ==
    [model |-> model, messages |-> <<Message(InitialRole(model), PRIMING)>>]

\* serde_json::to_string(&conversation_state): the JSON values in document
\* order, the model, then the role and the content of every message
RECURSIVE SerializeMessages(_)
SerializeMessages(msgs) ==
    IF msgs = <<>> THEN <<>>
    ELSE <<<<msgs[1].role>>, msgs[1].content>> \o SerializeMessages(Tail(msgs))

Serialize(state) == <<state.model>> \o SerializeMessages(state.messages)

\* serde_json::from_str(&data)
Deserialize(data) ==
    [model |-> data[1],
     messages |-> [i \in 1..((Len(data) - 1) \div 2) |->
                     Message(data[2*i][1], data[2*i + 1])]]

\* the transcript file: absent, or present with its data
NoFile == [exists |-> FALSE, data |-> <<>>]
FileOf(data) == [exists |-> TRUE, data |-> data]

(***************************************************************************)
(* The environment: replies of the service, answers of the user, outcomes  *)
(* of a command                                                            *)
(***************************************************************************)
ReplyPlain == <<"Sure.">>
ReplyDone == <<"DONE">>
ReplyCommand ==
    <<"preamble", "\n", COMMAND, " ", "ls", " ", "-la", "\n", "explanation">>
ReplyCommand2 == <<COMMAND, " ", "pwd">>
ReplyBoth == <<COMMAND, " ", "ls", "\n", DONE>>

Replies == {ReplyPlain, ReplyDone, ReplyCommand, ReplyCommand2, ReplyBoth}

Assistant(content) == Message("assistant", content)

\* the candidate lists of a decoded response (OpenaiApiReturn.choices)
ChoiceLists ==
    {<<>>} \cup {<<Assistant(r)>> : r \in Replies}
           \cup {<<Assistant(ReplyPlain), Assistant(ReplyDone)>>}

\* what one completion call meets: the send fails ("err"), the body does not
\* decode ("malformed"), or it decodes ("ok"); writable tells whether the
\* transcript file can be written afterwards
ApiResult(kind, choices, writable) ==
    [kind |-> kind, choices |-> choices, writable |-> writable]

ApiResults ==
    {ApiResult("err", <<>>, TRUE), ApiResult("malformed", <<>>, TRUE),
     ApiResult("ok", <<Assistant(ReplyPlain)>>, FALSE)}
    \cup {ApiResult("ok", c, TRUE) : c \in ChoiceLists}

NoRequest == [input |-> <<>>, res |-> ApiResult("none", <<>>, TRUE)]

\* the user's input on the command line
Inputs == { <<"hi">> }

\* dialoguer::Confirm::interact(): Ok(true), Ok(false) or Err
Answers == {"yes", "no", "cancel"}

\* dialoguer::Input::interact(): a comment, or Err (the default, empty)
Comments == { <<>>, <<"use", " ", "pwd">> }

\* std::process::Output of an approved command, or the spawn error
SpawnError == <<"No such file or directory (os error 2)">>

ExecOutput(spawned, stdout, stderr, status) ==
    [spawned |-> spawned, stdout |-> stdout, stderr |-> stderr, status |-> status]

\* a spawn failure; the same output with two exit statuses; output that is
\* not valid UTF-8; a two-byte character; output that holds a marker
ExecOutputs ==
    {ExecOutput(FALSE, <<>>, <<>>, 0),
     ExecOutput(TRUE, <<"hello">>, <<>>, 0),
     ExecOutput(TRUE, <<"hello">>, <<>>, 1),
     ExecOutput(TRUE, <<"hello", "0xFF">>, <<"0xC3">>, 1),
     ExecOutput(TRUE, <<"0xC3", "0xA9">>, <<"oops">>, 0),
     ExecOutput(TRUE, <<COMMAND, " ", "rm">>, <<>>, 0)}

NoOutput == ExecOutput(FALSE, <<>>, <<>>, 0 - 1)

(***************************************************************************)
(* perform_request and process_response                                    *)
(***************************************************************************)
Outcome(state, f, panicked) == [state |-> state, file |-> f, panicked |-> panicked]

Push(state, message) == [state EXCEPT !.messages = Append(@, message)]

\* a slip for line 265: the last candidate is taken
LastChoice(choices) == choices[Len(choices)]

\* line 265: data.choices.remove(0)
FirstChoice(choices) == Head(choices)

\* a slip for lines 268-270: the transcript is written before the push
ProcessResponseStale(choices, state, f, writable) ==
    IF choices = <<>> THEN Outcome(state, f, TRUE)
    ELSE LET pushed == Push(state, FirstChoice(choices))
         IN  IF writable THEN Outcome(pushed, FileOf(Serialize(state)), FALSE)
             ELSE Outcome(pushed, f, TRUE)

\* a slip for lines 258-270: the transcript is written before the check for
\* an empty list
ProcessResponseSavesFirst(choices, state, f, writable) ==
    IF choices = <<>> THEN Outcome(state, FileOf(Serialize(state)), TRUE)
    ELSE LET pushed == Push(state, FirstChoice(choices))
         IN  IF writable THEN Outcome(pushed, FileOf(Serialize(pushed)), FALSE)
             ELSE Outcome(pushed, f, TRUE)

\* lines 253-271
ProcessResponse(choices, state, f, writable) ==
    IF choices = <<>> THEN Outcome(state, f, TRUE)
    ELSE LET pushed == Push(state, FirstChoice(choices))
         IN  IF writable THEN Outcome(pushed, FileOf(Serialize(pushed)), FALSE)
             ELSE Outcome(pushed, f, TRUE)

\* a slip for lines 247-249: the failed send takes the user turn back
PerformRequestUndo(input, state, f, res) ==
    LET pushed == Push(state, Message("user", input))
    IN  CASE res.kind = "err" -> Outcome(state, f, FALSE)
          [] res.kind = "malformed" -> Outcome(pushed, f, TRUE)
          [] OTHER -> ProcessResponse(res.choices, pushed, f, res.writable)

\* lines 210-251
PerformRequest(input, state, f, res) ==
    LET pushed == Push(state, Message("user", input))
    IN  CASE res.kind = "err" -> Outcome(pushed, f, FALSE)
          [] res.kind = "malformed" -> Outcome(pushed, f, TRUE)
          [] OTHER -> ProcessResponse(res.choices, pushed, f, res.writable)

\* a slip for lines 322 and 337: a reply with a directive is never complete
IsCompleteUnlessCommand(response) ==
    Contains(response, DONE) /\ ~Contains(response, COMMAND)

\* lines 322 and 337: response.contains("DONE")
IsComplete(response) == Contains(response, DONE)

\* a slip for line 353: a cancelled prompt counts as a yes
ConfirmOrTrue(answer) == answer # "no"

\* lines 349-353: interact().unwrap_or(false)
Confirm(answer) == answer = "yes"

(***************************************************************************)
(* State                                                                   *)
(***************************************************************************)
(***************************************************************************)
(* clear_current_convo and manage_ongoing_convos                           *)
(***************************************************************************)
\* the most invocations with -c or -m in a run of the model
MaxManaged == 1

\* a conversation that another shell left in the transcript folder
OtherInput == <<"yo">>
OtherConversation ==
    Push(Push(InitialState(<<"o1-", "mini">>), Message("user", OtherInput)),
         Assistant(ReplyPlain))

\* the other shell's file at the start: a conversation, an empty file, or
\* no file
OtherFiles == {FileOf(Serialize(OtherConversation)), FileOf(<<>>), NoFile}

\* serde_json::from_str(&data) is Ok
Parses(data) == data # <<>>

\* lines 497-502: read_to_string().unwrap_or_default(), then
\* from_str().unwrap_or_else(): a file that does not parse stands for a
\* conversation with model "" and no messages
FromStrOrEmpty(data) ==
    IF Parses(data) THEN Deserialize(data) ELSE [model |-> <<>>, messages |-> <<>>]

\* iter().skip(1)
Skip1(msgs) == SubSeq(msgs, 2, Len(msgs))

\* a slip for lines 509-511: the copied conversation takes the place of the
\* current one
MergeReplacing(current, copied) == copied

\* lines 509-511
Merge(current, copied) ==
    [current EXCEPT !.messages = @ \o Skip1(copied.messages)]

\* printed lines
Cleared == "Conversation cleared."
ClearError == "Error clearing conversation: No such file or directory"
ModelMismatch == "Cannot copy conversation: Model mismatch."
Copied == "Conversation copied successfully."

CopyResult(state, f, line, panicked) ==
    [state |-> state, file |-> f, notice |-> line, panicked |-> panicked]

\* a slip for lines 509-514: the file is written before the messages are
\* extended
CopyWritingFirst(current, copied, f, writable) ==
    IF copied.model # current.model THEN CopyResult(current, f, ModelMismatch, FALSE)
    ELSE LET merged == Merge(current, copied)
         IN  IF writable
             THEN CopyResult(merged, FileOf(Serialize(current)), Copied, FALSE)
             ELSE CopyResult(merged, f, "", TRUE)

\* lines 504-515
Copy(current, copied, f, writable) ==
    IF copied.model # current.model THEN CopyResult(current, f, ModelMismatch, FALSE)
    ELSE LET merged == Merge(current, copied)
         IN  IF writable
             THEN CopyResult(merged, FileOf(Serialize(merged)), Copied, FALSE)
             ELSE CopyResult(merged, f, "", TRUE)

\* a slip for lines 274-277: the outcome is printed, the file stays
ClearKeepingFile(f) ==
    [file |-> f, notice |-> IF f.exists THEN Cleared ELSE ClearError]

\* lines 273-278: fs::remove_file is Ok for a file that exists
ClearCurrentConvo(f) ==
    IF f.exists THEN [file |-> NoFile, notice |-> Cleared]
    ELSE [file |-> f, notice |-> ClearError]

\* the choices of the user in manage_ongoing_convos: the first menu left
\* (Err), all deleted and confirmed or not, or a file and an action
ManageOps == {"escape", "delete_all", "keep_all", "delete", "copy", "cancel"}
Keys == {"current", "other"}

VARIABLES
    MODEL,               \* const MODEL of the build
    transcript,          \* the file at transcript_path
    conversation_state,  \* the invocation's ConversationState
    pc,                  \* where the invocation is
    user_input,          \* the input string of the invocation
    command,             \* the command extracted in this iteration
    confirm,             \* the result of the last confirmation
    prompts,             \* approval prompts shown by this invocation
    answer,              \* what the user did at the last approval prompt
    comment,             \* the comment given with the last rejection
    executed,            \* commands given to sh -c by this invocation
    output,              \* what the last command gave
    request,             \* the last completion call: its input and result
    calls,               \* completion calls sent so far
    iter,                \* the loop iteration: number, calls, failed calls
    other_transcript,    \* the transcript file of another shell
    notice,              \* what clear or manage printed in this invocation
    managed,             \* invocations with -c or -m so far
    rival                \* a second invocation of the same shell

vars == <<MODEL, transcript, conversation_state, pc, user_input, command,
          confirm, prompts, answer, comment, executed, output, request,
          calls, iter, other_transcript, notice, managed, rival>>

NoState == [model |-> <<>>, messages |-> <<>>]
NoIter == [n |-> 0, calls |-> 0, failed |-> FALSE, execs |-> 0, prompts |-> 0]
NoRival == [pc |-> "main", state |-> NoState, input |-> <<>>,
            res |-> ApiResult("none", <<>>, TRUE)]

messages == conversation_state.messages
LastMessage == messages[Len(messages)]

Init ==
    /\ MODEL \in Models
    /\ transcript = NoFile
    /\ conversation_state = NoState
    /\ pc = "main"
    /\ user_input = <<>>
    /\ command = <<>>
    /\ confirm = FALSE
    /\ prompts = <<>>
    /\ answer = "none"
    /\ comment = <<>>
    /\ executed = <<>>
    /\ output = NoOutput
    /\ request = NoRequest
    /\ calls = 0
    /\ iter = NoIter
    /\ other_transcript = NoFile
    /\ notice = ""
    /\ managed = 0
    /\ rival = NoRival

(***************************************************************************)
(* main                                                                    *)
(***************************************************************************)
\* lines 93-109 and 129-131, 156-162: load or initialize the state, then
\* dispatch on the flags (recursive: -r)
Main(recursive, input) ==
    /\ pc = "main"
    /\ conversation_state' =
          IF transcript.exists THEN Deserialize(transcript.data)
                               ELSE InitialState(MODEL)
    /\ user_input' = input
    /\ pc' = IF recursive THEN "entry" ELSE "single"
    /\ UNCHANGED <<MODEL, other_transcript, notice, managed, rival,
                   transcript, command, confirm, prompts, answer, comment,
                   executed, output, request, calls, iter>>

\* lines 157-162: the simple request
SingleShot(res) ==
    /\ pc = "single"
    /\ calls < MaxCalls
    /\ LET r == PerformRequest(user_input, conversation_state, transcript, res)
       IN  /\ conversation_state' = r.state
           /\ transcript' = r.file
           /\ pc' = IF r.panicked THEN "aborted" ELSE "returned"
    /\ request' = [input |-> user_input, res |-> res]
    /\ calls' = calls + 1
    /\ UNCHANGED <<MODEL, other_transcript, notice, managed, rival,
                   user_input, command, confirm, prompts, answer, comment,
                   executed, output, iter>>

(***************************************************************************)
(* handle_recursive_mode                                                   *)
(***************************************************************************)
\* lines 316-328: the head of the loop
LoopEntry ==
    /\ pc = "entry"
    /\ LET response == LastMessage.content
       IN  pc' = IF IsComplete(response) THEN "returned"
                 ELSE IF ~Contains(response, COMMAND) THEN "ask"
                 ELSE "extract"
    /\ iter' = [n |-> iter.n + 1, calls |-> 0, failed |-> FALSE,
                execs |-> 0, prompts |-> 0]
    /\ UNCHANGED <<MODEL, other_transcript, notice, managed, rival,
                   transcript, conversation_state, user_input, command,
                   confirm, prompts, answer, comment, executed, output,
                   request, calls>>

\* lines 329-341: ask for a directive, then check for completion again
RequestDirective(res) ==
    /\ pc = "ask"
    /\ calls < MaxCalls
    /\ LET input == DirectivePrompt(user_input)
           r == PerformRequest(input, conversation_state, transcript, res)
           last_message == r.state.messages[Len(r.state.messages)]
       IN  /\ conversation_state' = r.state
           /\ transcript' = r.file
           /\ request' = [input |-> input, res |-> res]
           /\ pc' = IF r.panicked THEN "aborted"
                    ELSE IF IsComplete(last_message.content) THEN "returned"
                    ELSE "extract"
    /\ calls' = calls + 1
    /\ iter' = [iter EXCEPT !.calls = @ + 1,
                            !.failed = @ \/ res.kind = "err"]
    /\ UNCHANGED <<MODEL, other_transcript, notice, managed, rival,
                   user_input, command, confirm, prompts, answer, comment,
                   executed, output>>

\* a slip for lines 344-387: the loop is left when no directive is found
ExtractAndPromptGivingUp ==
    /\ pc = "extract"
    /\ LET response == LastMessage.content
       IN  IF Find(response, COMMAND) # 0
           THEN /\ command' = ExtractCommand(response)
                /\ prompts' = Append(prompts, ApprovalPrompt(command'))
                /\ iter' = [iter EXCEPT !.prompts = @ + 1]
                /\ pc' = "confirm"
           ELSE /\ pc' = "returned"
                /\ UNCHANGED <<command, prompts, iter>>
    /\ UNCHANGED <<MODEL, other_transcript, notice, managed, rival,
                   transcript, conversation_state, user_input, confirm,
                   answer, comment, executed, output, request, calls>>

\* lines 344-352: extract the command and show the approval prompt
ExtractAndPrompt ==
    /\ pc = "extract"
    /\ LET response == LastMessage.content
       IN  IF Find(response, COMMAND) # 0
           THEN /\ command' = ExtractCommand(response)
                /\ prompts' = Append(prompts, ApprovalPrompt(command'))
                /\ iter' = [iter EXCEPT !.prompts = @ + 1]
                /\ pc' = "confirm"
           ELSE /\ pc' = "entry"
                /\ UNCHANGED <<command, prompts, iter>>
    /\ UNCHANGED <<MODEL, other_transcript, notice, managed, rival,
                   transcript, conversation_state, user_input, confirm,
                   answer, comment, executed, output, request, calls>>

\* lines 349-355, 375: the user's answer to the approval prompt
Approval(a) ==
    /\ pc = "confirm"
    /\ answer' = a
    /\ confirm' = Confirm(a)
    /\ pc' = IF confirm' THEN "exec" ELSE "reject"
    /\ UNCHANGED <<MODEL, other_transcript, notice, managed, rival,
                   transcript, conversation_state, user_input, command,
                   prompts, comment, executed, output, request, calls, iter>>

\* lines 357-374: run the command and pass the result back
Execute(out, res) ==
    /\ pc = "exec"
    /\ calls < MaxCalls
    /\ executed' = Append(executed, command)
    /\ output' = out
    /\ LET input == IF out.spawned THEN CommandResult(out.stdout, out.stderr)
                    ELSE SpawnFailure(SpawnError)
           r == PerformRequest(input, conversation_state, transcript, res)
       IN  /\ conversation_state' = r.state
           /\ transcript' = r.file
           /\ request' = [input |-> input, res |-> res]
           /\ pc' = IF r.panicked THEN "aborted" ELSE "entry"
    /\ calls' = calls + 1
    /\ iter' = [iter EXCEPT !.calls = @ + 1, !.execs = @ + 1,
                            !.failed = @ \/ res.kind = "err"]
    /\ UNCHANGED <<MODEL, other_transcript, notice, managed, rival,
                   user_input, command, confirm, prompts, answer, comment>>

\* lines 376-385: ask for a comment and pass the rejection back
Reject(c, res) ==
    /\ pc = "reject"
    /\ calls < MaxCalls
    /\ comment' = c
    /\ LET input == RejectionInput(c)
           r == PerformRequest(input, conversation_state, transcript, res)
       IN  /\ conversation_state' = r.state
           /\ transcript' = r.file
           /\ request' = [input |-> input, res |-> res]
           /\ pc' = IF r.panicked THEN "aborted" ELSE "entry"
    /\ calls' = calls + 1
    /\ iter' = [iter EXCEPT !.calls = @ + 1,
                            !.failed = @ \/ res.kind = "err"]
    /\ UNCHANGED <<MODEL, other_transcript, notice, managed, rival,
                   user_input, command, confirm, prompts, answer, executed,
                   output>>

\* the process ends (a return of main or a panic); the next invocation of
\* the same shell finds the transcript as it was left
Exit ==
    /\ pc \in {"returned", "aborted"}
    /\ pc' = "main"
    /\ conversation_state' = NoState
    /\ user_input' = <<>>
    /\ command' = <<>>
    /\ confirm' = FALSE
    /\ prompts' = <<>>
    /\ answer' = "none"
    /\ comment' = <<>>
    /\ executed' = <<>>
    /\ output' = NoOutput
    /\ request' = NoRequest
    /\ iter' = NoIter
    /\ notice' = ""
    /\ UNCHANGED <<MODEL, other_transcript, managed, rival, transcript, calls>>

\* lines 93-109 and 132-137: load or initialize the state, then dispatch to
\* manage (-m) or clear (-c), both without input
MainSession(flag) ==
    /\ pc = "main"
    /\ conversation_state' =
          IF transcript.exists THEN Deserialize(transcript.data)
                               ELSE InitialState(MODEL)
    /\ user_input' = <<>>
    /\ pc' = flag
    /\ managed < MaxManaged
    /\ managed' = managed + 1
    /\ UNCHANGED <<MODEL, other_transcript, notice, rival, transcript,
                   command, confirm, prompts, answer, comment, executed, output,
                   request, calls, iter>>

\* lines 273-278
Clear ==
    /\ pc = "clear"
    /\ LET r == ClearCurrentConvo(transcript)
       IN  /\ transcript' = r.file
           /\ notice' = r.notice
    /\ pc' = "returned"
    /\ UNCHANGED <<MODEL, other_transcript, managed, rival, conversation_state,
                   user_input, command, confirm, prompts, answer, comment,
                   executed, output, request, calls, iter>>

\* lines 414-523
Manage(op, key, writable) ==
    /\ pc = "manage"
    /\ LET selected_file == IF key = "current" THEN transcript ELSE other_transcript
       IN  IF ~transcript.exists /\ ~other_transcript.exists
           THEN /\ notice' = "No conversations to manage!"
                /\ pc' = "returned"
                /\ UNCHANGED <<transcript, other_transcript, conversation_state,
                               managed>>
           ELSE /\ selected_file.exists
                /\ CASE op = "escape" ->
                          /\ pc' = "returned"
                          /\ UNCHANGED <<transcript, other_transcript,
                                         conversation_state, managed, notice>>
                     [] op = "delete_all" ->
                          /\ transcript' = NoFile
                          /\ other_transcript' = NoFile
                          /\ notice' = "Deleted conversation(s)."
                          /\ pc' = "returned"
                          /\ UNCHANGED <<conversation_state, managed>>
                     [] op = "keep_all" ->
                          /\ notice' = "Operation cancelled."
                          /\ pc' = "returned"
                          /\ UNCHANGED <<transcript, other_transcript,
                                         conversation_state, managed>>
                     [] op = "delete" ->
                          /\ transcript' = IF key = "current" THEN NoFile
                                           ELSE transcript
                          /\ other_transcript' = IF key = "other" THEN NoFile
                                                 ELSE other_transcript
                          /\ notice' = "Conversation deleted successfully."
                          /\ pc' = "returned"
                          /\ UNCHANGED <<conversation_state, managed>>
                     [] op = "copy" ->
                          /\ LET r == Copy(conversation_state,
                                           FromStrOrEmpty(selected_file.data),
                                           transcript, writable)
                             IN  /\ conversation_state' = r.state
                                 /\ transcript' = r.file
                                 /\ notice' = r.notice
                                 /\ pc' = IF r.panicked THEN "aborted"
                                          ELSE "returned"
                          /\ UNCHANGED <<other_transcript, managed>>
                     [] OTHER ->
                          /\ notice' = "Action cancelled."
                          /\ pc' = "returned"
                          /\ UNCHANGED <<transcript, other_transcript,
                                         conversation_state, managed>>
    /\ UNCHANGED <<MODEL, rival, user_input, command, confirm, prompts, answer,
                   comment, executed, output, request, calls, iter>>

Next ==
    \/ \E recursive \in BOOLEAN, input \in Inputs : Main(recursive, input)
    \/ \E res \in ApiResults : SingleShot(res)
    \/ LoopEntry
    \/ \E res \in ApiResults : RequestDirective(res)
    \/ ExtractAndPrompt
    \/ \E a \in Answers : Approval(a)
    \/ \E out \in ExecOutputs, res \in ApiResults : Execute(out, res)
    \/ \E c \in Comments, res \in ApiResults : Reject(c, res)
    \/ Exit

Spec == Init /\ [][Next]_vars

\* the invocations of Spec and those that clear or manage conversations
NextSession ==
    \/ Next
    \/ \E flag \in {"clear", "manage"} : MainSession(flag)
    \/ Clear
    \/ \E op \in ManageOps, key \in Keys, writable \in BOOLEAN :
          Manage(op, key, writable)

\* as Init, with a file of another shell in the transcript folder
InitSession ==
    /\ MODEL \in Models
    /\ transcript = NoFile
    /\ conversation_state = NoState
    /\ pc = "main"
    /\ user_input = <<>>
    /\ command = <<>>
    /\ confirm = FALSE
    /\ prompts = <<>>
    /\ answer = "none"
    /\ comment = <<>>
    /\ executed = <<>>
    /\ output = NoOutput
    /\ request = NoRequest
    /\ calls = 0
    /\ iter = NoIter
    /\ other_transcript \in OtherFiles
    /\ notice = ""
    /\ managed = 0
    /\ rival = NoRival

SpecSession == InitSession /\ [][NextSession]_vars

(***************************************************************************)
(* A second invocation in the same shell (the same transcript_path)        *)
(***************************************************************************)
RivalInputs == { <<"hi">>, <<"yo">> }

\* lines 93-109 in the second invocation
RivalMain(input) ==
    /\ rival.pc = "main"
    /\ rival' = [pc |-> "single",
                 state |-> IF transcript.exists THEN Deserialize(transcript.data)
                           ELSE InitialState(MODEL),
                 input |-> input,
                 res |-> NoRival.res]
    /\ UNCHANGED <<MODEL, other_transcript, notice, managed, transcript,
                   conversation_state, pc, user_input, command, confirm,
                   prompts, answer, comment, executed, output, request, calls,
                   iter>>

\* a slip for lines 157-162 in the second invocation: the record is read
\* again before the turns are added
RivalSingleShotReloading(res) ==
    /\ rival.pc = "single"
    /\ calls < MaxCalls
    /\ LET current == IF transcript.exists THEN Deserialize(transcript.data)
                      ELSE rival.state
           r == PerformRequest(rival.input, current, transcript, res)
       IN  /\ rival' = [rival EXCEPT !.state = r.state, !.res = res,
                           !.pc = IF r.panicked THEN "aborted" ELSE "returned"]
           /\ transcript' = r.file
    /\ calls' = calls + 1
    /\ UNCHANGED <<MODEL, other_transcript, notice, managed, conversation_state,
                   pc, user_input, command, confirm, prompts, answer, comment,
                   executed, output, request, iter>>

\* lines 157-162 in the second invocation
RivalSingleShot(res) ==
    /\ rival.pc = "single"
    /\ calls < MaxCalls
    /\ LET r == PerformRequest(rival.input, rival.state, transcript, res)
       IN  /\ rival' = [rival EXCEPT !.state = r.state, !.res = res,
                           !.pc = IF r.panicked THEN "aborted" ELSE "returned"]
           /\ transcript' = r.file
    /\ calls' = calls + 1
    /\ UNCHANGED <<MODEL, other_transcript, notice, managed, conversation_state,
                   pc, user_input, command, confirm, prompts, answer, comment,
                   executed, output, request, iter>>

\* the second invocation's process ends
RivalExit ==
    /\ rival.pc \in {"returned", "aborted"}
    /\ rival' = NoRival
    /\ UNCHANGED <<MODEL, other_transcript, notice, managed, transcript,
                   conversation_state, pc, user_input, command, confirm,
                   prompts, answer, comment, executed, output, request, calls,
                   iter>>

\* two invocations of the simple request, interleaved
NextRace ==
    \/ \E input \in Inputs : Main(FALSE, input)
    \/ \E res \in ApiResults : SingleShot(res)
    \/ Exit
    \/ \E input \in RivalInputs : RivalMain(input)
    \/ \E res \in ApiResults : RivalSingleShot(res)
    \/ RivalExit

SpecRace == Init /\ [][NextRace]_vars

(***************************************************************************)
(* Properties                                                              *)
(***************************************************************************)
\* the number of user turns of a message sequence
RECURSIVE UserTurns(_)
UserTurns(msgs) ==
    IF msgs = <<>> THEN 0
    ELSE (IF msgs[1].role = "user" THEN 1 ELSE 0) + UserTurns(Tail(msgs))

\* text t occurs in text s
Occurs(t, s) ==
    \E i \in 1..(Len(s) + 1) :
        i + Len(t) - 1 <= Len(s) /\ SubSeq(s, i, i + Len(t) - 1) = t

\* msgs2 is msgs1 with messages added at its end
Extends(msgs2, msgs1) ==
    Len(msgs2) >= Len(msgs1) /\ SubSeq(msgs2, 1, Len(msgs1)) = msgs1

InLoop == pc \in {"entry", "ask", "extract", "confirm", "exec", "reject"}

\* C1: a latest message that holds the completion marker halts the loop, at
\* the head of the loop and right after the reply to a directive request,
\* before any approval prompt or command of that pass, also when the message
\* holds the directive marker; so no extraction, prompt, execution or
\* rejection step is ever pending on a message that holds the marker.
C1_DoneHaltsBeforeApproval ==
    /\ [](pc \in {"extract", "confirm", "exec", "reject"}
            => ~Contains(LastMessage.content, DONE))
    /\ [][(pc = "entry" /\ Contains(LastMessage.content, DONE))
            => (pc' = "returned" /\ prompts' = prompts /\ executed' = executed)]_vars
    /\ [][(pc = "ask" /\ pc' # "aborted"
             /\ Contains(conversation_state'.messages[Len(conversation_state'.messages)].content, DONE))
            => (pc' = "returned" /\ prompts' = prompts /\ executed' = executed)]_vars

\* C1 witness: the loop has returned on a reply of the assistant that holds
\* both markers, with no prompt shown and nothing executed
C1_Witness ==
    /\ pc = "returned"
    /\ iter.n > 0
    /\ LastMessage = Assistant(ReplyBoth)
    /\ prompts = <<>>
    /\ executed = <<>>

\* C2: a command is given to the subshell only in a step taken after a yes
\* to the prompt of the same iteration, and it is the command that prompt
\* displayed; after a no or a cancelled prompt the iteration runs nothing.
C2_RunOnlyOnYes ==
    /\ [](pc = "exec" => answer = "yes")
    /\ [](pc = "reject" => (answer \in {"no", "cancel"} /\ iter.execs = 0))
    /\ [][Len(executed') > Len(executed)
            => /\ pc = "exec" /\ answer = "yes"
               /\ iter.prompts = 1 /\ iter.execs = 0
               /\ executed' = Append(executed, command)
               /\ prompts[Len(prompts)] = ApprovalPrompt(executed'[Len(executed')])]_vars
    /\ [][pc = "reject" => executed' = executed]_vars

\* C2 witness: two different commands were run, each after its own prompt
C2_Witness ==
    /\ Len(executed) = 2
    /\ executed[1] # executed[2]
    /\ prompts = <<ApprovalPrompt(executed[1]), ApprovalPrompt(executed[2])>>

\* C3: the rejection step keeps the earlier messages, adds exactly one user
\* turn, whose content holds the comment, makes exactly one completion call,
\* executes nothing and goes back to the head of the loop (or aborts on a
\* response that cannot be used).
C3_RejectionFeedback ==
    [][pc = "reject"
         => /\ Extends(conversation_state'.messages, messages)
            /\ UserTurns(conversation_state'.messages) = UserTurns(messages) + 1
            /\ conversation_state'.messages[Len(messages) + 1].role = "user"
            /\ Occurs(comment', conversation_state'.messages[Len(messages) + 1].content)
            /\ calls' = calls + 1
            /\ iter'.calls = iter.calls + 1
            /\ executed' = executed /\ iter'.execs = 0
            /\ pc' \in {"entry", "aborted"}]_vars

\* C3 witness: back at the head of the loop after a rejection with a comment
C3_Witness ==
    /\ pc = "entry"
    /\ answer = "no"
    /\ comment = <<"use", " ", "pwd">>
    /\ request.res.kind = "ok"
    /\ messages[Len(messages) - 1] = Message("user", RejectionInput(comment))

\* the parts of the result message
ResultHeader == <<"Command output:", "\n", "stdout:", "\n">>
ResultMiddle == <<"\n", "stderr:", "\n">>

\* byte i of a byte string starts or ends no valid UTF-8 sequence
InvalidByte(bytes, i) ==
    \/ bytes[i] = "0xFF"
    \/ bytes[i] = "0xC3" /\ (i = Len(bytes) \/ bytes[i + 1] # "0xA9")
    \/ bytes[i] = "0xA9" /\ (i = 1 \/ bytes[i - 1] # "0xC3")

ValidUtf8(bytes) == \A i \in 1..Len(bytes) : ~InvalidByte(bytes, i)

\* text is bytes decoded with every invalid byte replaced by U+FFFD: some
\* map of the characters to the places where they start says so
LossyTextOf(text, bytes) ==
    \E at \in [1..Len(text) -> 1..Len(bytes)] :
        /\ \A k \in 1..Len(text) :
              /\ IF InvalidByte(bytes, at[k]) THEN text[k] = "U+FFFD"
                 ELSE IF bytes[at[k]] = "0xC3" THEN text[k] = "U+00E9"
                 ELSE text[k] = bytes[at[k]]
              /\ k > 1 => at[k] > at[k - 1]
        /\ \A i \in 1..Len(bytes) :
              (\E k \in 1..Len(text) : at[k] = i)
                 <=> ~(bytes[i] = "0xA9" /\ ~InvalidByte(bytes, i))

\* the user turn a step has added after the messages it found
AddedTurn == conversation_state'.messages[Len(messages) + 1]

\* C4 as stated: the result message holds the bytes of both streams unmodified.
C4_ResultVerbatim ==
    [][(pc = "exec" /\ output'.spawned)
         => AsBytes(AddedTurn.content) =
               ResultHeader \o output'.stdout \o ResultMiddle \o output'.stderr]_vars

\* C4 amended: the step that runs an approved command adds, next after the
\* messages it found, a user turn "Command output:\nstdout:\n<out>\nstderr:\n<err>"
\* and sends it in one completion call; <out> and <err> are the streams
\* decoded as UTF-8 with every invalid byte replaced by U+FFFD, so a stream
\* that is valid UTF-8 is held verbatim; the exit status plays no part.
C4_ResultLossy ==
    [][(pc = "exec" /\ output'.spawned)
         => /\ Extends(conversation_state'.messages, messages)
            /\ AddedTurn.role = "user"
            /\ UserTurns(conversation_state'.messages) = UserTurns(messages) + 1
            /\ calls' = calls + 1
            /\ \E n \in 0..Len(AddedTurn.content) :
                 LET c == AddedTurn.content
                     out == SubSeq(c, Len(ResultHeader) + 1, Len(ResultHeader) + n)
                     err == SubSeq(c, Len(ResultHeader) + n + Len(ResultMiddle) + 1, Len(c))
                 IN  /\ Len(ResultHeader) + n + Len(ResultMiddle) <= Len(c)
                     /\ c = ResultHeader \o out \o ResultMiddle \o err
                     /\ LossyTextOf(out, output'.stdout)
                     /\ LossyTextOf(err, output'.stderr)
                     /\ ValidUtf8(output'.stdout) => AsBytes(out) = output'.stdout
                     /\ ValidUtf8(output'.stderr) => AsBytes(err) = output'.stderr]_vars

\* C4 witness: a command that failed (status 1) and wrote bytes that are not
\* UTF-8 has been run and its result sent
C4_Witness ==
    /\ pc = "entry"
    /\ iter.execs = 1
    /\ output = ExecOutput(TRUE, <<"hello", "0xFF">>, <<"0xC3">>, 1)
    /\ request.res.kind = "ok"
    /\ messages[Len(messages) - 1].role = "user"
    /\ Occurs(<<"hello", "U+FFFD">>, messages[Len(messages) - 1].content)

\* C5: a single-shot request whose response decodes to a list that is not
\* empty (and whose transcript can be written) returns with the messages
\* grown by exactly two, the user turn with the input and then the first
\* candidate, an assistant turn, and the transcript then reads back as
\* exactly the state in memory.
C5_SingleShotAppendsTwo ==
    [][(pc = "single" /\ request'.res.kind = "ok"
          /\ request'.res.choices # <<>> /\ request'.res.writable)
         => /\ pc' = "returned"
            /\ conversation_state'.messages =
                  messages \o <<Message("user", user_input), request'.res.choices[1]>>
            /\ conversation_state'.messages[Len(messages) + 2].role = "assistant"
            /\ conversation_state'.model = conversation_state.model
            /\ transcript'.exists
            /\ Deserialize(transcript'.data) = conversation_state']_vars

\* C5 witness: no record, input "hi", a response with two candidates: three
\* messages are persisted, the last one the first candidate
C5_Witness ==
    /\ pc = "returned"
    /\ iter.n = 0
    /\ request.res.choices = <<Assistant(ReplyPlain), Assistant(ReplyDone)>>
    /\ transcript.exists
    /\ Deserialize(transcript.data).messages =
          <<Message(InitialRole(MODEL), PRIMING), Message("user", <<"hi">>),
            Assistant(ReplyPlain)>>

\* C6 as stated: once a completion call of the agent loop has failed at
\* transport level, the invocation makes no further completion call, shows
\* no further approval prompt and runs no further command.
C6_LoopStopsOnTransportError ==
    [][(InLoop /\ iter.n > 0 /\ request.res.kind = "err")
         => (calls' = calls /\ prompts' = prompts /\ executed' = executed)]_vars

\* C7: at the head of the loop after an iteration whose completion calls all
\* succeeded (and where the loop returned after such an iteration), the
\* transcript reads back as exactly the state in memory.
C7_PersistedAfterIteration ==
    (pc \in {"entry", "returned"} /\ iter.calls > 0 /\ ~iter.failed)
        => (transcript.exists /\ Deserialize(transcript.data) = conversation_state)

\* C7 witness: an iteration that asked for a directive, ran the command and
\* sent the result, both calls answered
C7_Witness ==
    /\ pc = "entry"
    /\ iter.calls = 2
    /\ iter.execs = 1
    /\ ~iter.failed
    /\ Len(messages) = 5

\* C8: a completion call whose send fails adds the one user turn that was
\* pushed before the send and nothing else to the state in memory, and
\* leaves the transcript as it was.
C8_FailedSendFrame ==
    [][(calls' = calls + 1 /\ request'.res.kind = "err")
         => /\ conversation_state'.messages =
                  Append(messages, Message("user", request'.input))
            /\ conversation_state'.model = conversation_state.model
            /\ transcript' = transcript]_vars

\* C8 witness: the call that carries a command's result has failed; the
\* transcript still ends with the reply that proposed the command
C8_Witness ==
    /\ pc = "entry"
    /\ iter.execs = 1
    /\ request.res.kind = "err"
    /\ LastMessage = Message("user", request.input)
    /\ transcript.exists
    /\ Deserialize(transcript.data).messages = SubSeq(messages, 1, Len(messages) - 1)

\* C10: a state initialized because no transcript was found has exactly one
\* message, the priming message, with role user when the model name holds
\* "o1-" and role system otherwise.
C10_FreshState ==
    (pc \in {"entry", "single"} /\ iter.n = 0 /\ ~transcript.exists)
        => /\ Len(messages) = 1
           /\ messages[1].content = PRIMING
           /\ messages[1].role \in {"user", "system"}
           /\ messages[1].role = "user" <=> (\E i \in 1..Len(MODEL) : MODEL[i] = "o1-")
           /\ conversation_state.model = MODEL

\* C10 witness: the build's model o1-mini starts with a user priming message
C10_Witness ==
    /\ pc = "entry"
    /\ iter.n = 0
    /\ ~transcript.exists
    /\ MODEL = <<"o1-", "mini">>
    /\ messages = <<Message("user", PRIMING)>>

(***************************************************************************)
(* The directive extraction on every short reply: the state right after a  *)
(* directive request was answered by a reply without the completion        *)
(* marker, and the extraction step from there.                             *)
(***************************************************************************)
ReplyAlphabet == {COMMAND, " ", "\n", "\r", "ls"}

ShortReplies == UNION {[1..n -> ReplyAlphabet] : n \in 0..MaxReplyLen}

InitExtract ==
    \E reply \in ShortReplies \cup {ReplyCommand} :
        /\ MODEL = <<"o1-", "mini">>
        /\ user_input = <<"hi">>
        /\ conversation_state =
              Push(Push(InitialState(MODEL),
                        Message("user", DirectivePrompt(user_input))),
                   Assistant(reply))
        /\ transcript = FileOf(Serialize(conversation_state))
        /\ pc = "extract"
        /\ command = <<>>
        /\ confirm = FALSE
        /\ prompts = <<>>
        /\ answer = "none"
        /\ comment = <<>>
        /\ executed = <<>>
        /\ output = NoOutput
        /\ request = [input |-> DirectivePrompt(user_input),
                      res |-> ApiResult("ok", <<Assistant(reply)>>, TRUE)]
        /\ calls = 1
        /\ iter = [n |-> 1, calls |-> 1, failed |-> FALSE, execs |-> 0,
                   prompts |-> 0]
        /\ other_transcript = NoFile
        /\ notice = ""
        /\ managed = 0
        /\ rival = NoRival

NextExtract == ExtractAndPrompt

SpecExtract == InitExtract /\ [][NextExtract]_vars

\* the least element of a set of integers that is not empty
Least(S) == CHOOSE x \in S : \A y \in S : x <= y
Greatest(S) == CHOOSE x \in S : \A y \in S : x >= y

\* r[from..to] without the white space at its two ends
Trimmed(r, from, to) ==
    LET solid == {x \in from..to : ~IsWhitespace(r[x])}
    IN  IF solid = {} THEN <<>> ELSE SubSeq(r, Least(solid), Greatest(solid))

\* the place after the line of r that holds place i
LineEnd(r, i) == Least({x \in i..(Len(r) + 1) : x = Len(r) + 1 \/ r[x] = "\n"})

\* the text after the first marker of r up to the end of its line, trimmed
AfterFirstMarker(r) ==
    LET i == Least({x \in 1..Len(r) : r[x] = COMMAND})
    IN  Trimmed(r, i + 1, LineEnd(r, i) - 1)

\* the same, with the markers that follow the first one directly skipped too
AfterMarkerRun(r) ==
    LET i == Least({x \in 1..Len(r) : r[x] = COMMAND})
        e == LineEnd(r, i)
        j == Least({x \in i..e : x = e \/ r[x] # COMMAND})
    IN  Trimmed(r, j, e - 1)

\* C9 as stated: the command shown for approval is the text after the first
\* marker up to the end of that line, trimmed.
C9_CommandAfterFirstMarker ==
    pc = "confirm" => command = AfterFirstMarker(LastMessage.content)

\* C9 amended: the command shown for approval is the text that follows the
\* first marker and every further marker that follows it directly, up to
\* the end of that line, with the white space at both ends removed; other
\* lines and markers later in the line are not used as markers.
C9_CommandAfterMarkerRun ==
    pc = "confirm"
        => /\ command = AfterMarkerRun(LastMessage.content)
           /\ prompts = <<ApprovalPrompt(command)>>

\* C9 witness: the reply of three lines gives exactly "ls -la"
C9_Witness ==
    /\ pc = "confirm"
    /\ LastMessage.content = ReplyCommand
    /\ command = <<"ls", " ", "-la">>

(***************************************************************************)
(* Further properties of the agent loop                                    *)
(***************************************************************************)
\* C12 as stated: a command shown for approval or about to be executed was
\* extracted from a message of the assistant.
C12_DirectiveFromAssistant ==
    pc \in {"confirm", "exec"} => LastMessage.role = "assistant"

\* the most recent message of the assistant holds the completion marker
LastReplyHasDone ==
    \E i \in 1..Len(messages) :
        /\ messages[i].role = "assistant"
        /\ \A j \in (i + 1)..Len(messages) : messages[j].role # "assistant"
        /\ Contains(messages[i].content, DONE)

\* C13 as stated: the loop has returned only if the most recent message of
\* the assistant holds the completion marker.
C13_ReturnOnlyOnReplyDone ==
    (pc = "returned" /\ iter.n > 0) => LastReplyHasDone

\* the feedback text of the step taken from exec or reject
FeedbackInput ==
    IF pc = "reject" THEN RejectionInput(comment')
    ELSE IF output'.spawned THEN CommandResult(output'.stdout, output'.stderr)
    ELSE SpawnFailure(SpawnError)

\* C16: an iteration that is over without the loop having returned made one
\* or two completion calls: a directive request is made only as the first
\* call of an iteration whose latest message holds no directive marker, and
\* a prompt is followed by exactly one feedback call, which carries the
\* result of the execution or the rejection; an iteration without a prompt
\* made one call.
C16_CallsPerIteration ==
    /\ []((pc \in {"entry", "aborted"} /\ iter.n > 0) => iter.calls \in 1..2)
    /\ []((pc = "entry" /\ iter.n > 0 /\ iter.prompts = 0) => iter.calls = 1)
    /\ [][pc = "ask"
            => /\ iter.calls = 0 /\ iter'.calls = 1
               /\ ~Contains(LastMessage.content, COMMAND)
               /\ AddedTurn = Message("user", DirectivePrompt(user_input))]_vars
    /\ [][(pc = "extract" /\ pc' = "confirm") => iter.calls <= 1]_vars
    /\ [][(pc = "exec" \/ pc = "reject")
            => /\ iter.prompts = 1
               /\ iter'.calls = iter.calls + 1 /\ calls' = calls + 1
               /\ AddedTurn = Message("user", FeedbackInput)
               /\ pc' \in {"entry", "aborted"}]_vars

\* C16 witness: an iteration of two calls, the directive request and the
\* rejection, and the loop is at its head again
C16_Witness ==
    /\ pc = "entry"
    /\ iter.calls = 2
    /\ iter.prompts = 1
    /\ iter.execs = 0
    /\ request.input = RejectionInput(comment)

\* C17: when the approved command cannot be spawned, the step adds one user
\* turn that tells the spawn error, sends it in one completion call and, as
\* after a command that ran, is at the head of the loop when the call
\* returned (answered or failed) and aborted only when the response could
\* not be used.
C17_SpawnFailureNarrated ==
    [][(pc = "exec" /\ ~output'.spawned)
         => /\ Extends(conversation_state'.messages, messages)
            /\ AddedTurn.role = "user"
            /\ Occurs(SpawnError, AddedTurn.content)
            /\ UserTurns(conversation_state'.messages) = UserTurns(messages) + 1
            /\ calls' = calls + 1
            /\ executed' = Append(executed, command)
            /\ pc' \in {"entry", "aborted"}
            /\ pc' = "aborted" <=>
                 \/ request'.res.kind = "malformed"
                 \/ request'.res.choices = <<>> /\ request'.res.kind = "ok"
                 \/ ~request'.res.writable]_vars

\* C17 witness: a spawn failure was sent, answered, and the loop goes on
C17_Witness ==
    /\ pc = "entry"
    /\ iter.execs = 1
    /\ output = ExecOutput(FALSE, <<>>, <<>>, 0)
    /\ request.res.kind = "ok"
    /\ messages[Len(messages) - 1] = Message("user", SpawnFailure(SpawnError))

\* C18: a completion call whose response is empty or does not decode aborts
\* the process with only the user turn added in memory and the transcript
\* as it was; the state in memory ends with the process.
C18_UnusableResponseAborts ==
    /\ [][(calls' = calls + 1
             /\ (\/ request'.res.kind = "malformed"
                 \/ request'.res.kind = "ok" /\ request'.res.choices = <<>>))
            => /\ pc' = "aborted"
               /\ conversation_state'.messages =
                     Append(messages, Message("user", request'.input))
               /\ transcript' = transcript]_vars
    /\ [][pc = "aborted"
            => (pc' = "main" /\ conversation_state' = NoState
                  /\ transcript' = transcript)]_vars

\* C18 witness: aborted on an empty candidate list; the record lacks the
\* user turn that memory holds
C18_Witness ==
    /\ pc = "aborted"
    /\ request.res = ApiResult("ok", <<>>, TRUE)
    /\ transcript.exists
    /\ messages = Append(Deserialize(transcript.data).messages,
                         Message("user", request.input))

HasNoMarker(text) == ~Contains(text, DONE) /\ ~Contains(text, COMMAND)

\* C20: on a latest message with neither marker the extraction step shows no
\* prompt, runs nothing, makes no call and goes to the head of the loop, the
\* head of the loop goes on to a directive request, and that request is the
\* same prompt again; nothing but the service's reply is waited for.
C20_NoDirectiveAsksAgain ==
    /\ [][(pc = "extract" /\ HasNoMarker(LastMessage.content))
            => /\ pc' = "entry"
               /\ prompts' = prompts /\ executed' = executed
               /\ calls' = calls /\ conversation_state' = conversation_state]_vars
    /\ [][(pc = "entry" /\ HasNoMarker(LastMessage.content))
            => /\ pc' = "ask"
               /\ prompts' = prompts /\ executed' = executed]_vars
    /\ [][pc = "ask"
            => /\ AddedTurn = Message("user", DirectivePrompt(user_input))
               /\ prompts' = prompts /\ executed' = executed /\ answer' = answer]_vars

\* C20 witness: two directive requests in a row were answered with neither
\* marker, and the loop is at its head for the third time
C20_Witness ==
    /\ pc = "entry"
    /\ iter.n = 2
    /\ prompts = <<>> /\ executed = <<>> /\ answer = "none"
    /\ Len(messages) = 5
    /\ messages[2] = Message("user", DirectivePrompt(user_input))
    /\ messages[3] = Assistant(ReplyPlain)
    /\ messages[4] = messages[2]
    /\ messages[5] = Assistant(ReplyPlain)

(***************************************************************************)
(* Properties of clear and manage                                          *)
(***************************************************************************)
\* C11: clear removes the record of the session key when there is one and
\* says so; without a record it prints the error of the removal, creates no
\* record and returns as well; the process then ends with the record still
\* absent, and an invocation that finds no record starts from the freshly
\* initialized state.
C11_ClearRemovesRecord ==
    /\ [][pc = "clear"
            => /\ transcript' = NoFile
               /\ pc' = "returned"
               /\ notice' = (IF transcript.exists THEN Cleared ELSE ClearError)]_vars
    /\ [][(pc = "returned" /\ notice \in {Cleared, ClearError})
            => (pc' = "main" /\ transcript' = NoFile)]_vars
    /\ [][(pc = "main" /\ ~transcript.exists /\ pc' # "main")
            => conversation_state' = InitialState(MODEL)]_vars

\* C11 witness: a record with a conversation was loaded and then removed
C11_Witness ==
    /\ pc = "returned"
    /\ notice = Cleared
    /\ transcript = NoFile
    /\ Len(messages) > 1

InvocationRunning == pc \notin {"main", "returned", "aborted"}

\* C14: a step of a running invocation keeps the model and every message
\* there is, in place, so it can only append; the messages of a running
\* invocation begin with the priming message.
C14_AppendOnly ==
    /\ [](InvocationRunning
            => (messages # <<>> /\ messages[1].content = PRIMING))
    /\ [][InvocationRunning
            => /\ conversation_state'.model = conversation_state.model
               /\ Extends(conversation_state'.messages, messages)]_vars

\* C14 witness: another shell's conversation was copied behind one of this
\* shell
C14_Witness ==
    /\ pc = "returned"
    /\ notice = Copied
    /\ Len(messages) = 5
    /\ messages[3].role = "assistant"
    /\ messages[4] = Message("user", OtherInput)

\* C15: a step that writes the record writes the state in memory as it is
\* after the step, and the record of a running invocation, if there is one,
\* is a prefix of the messages in memory.
C15_RecordFollowsMemory ==
    /\ [][(transcript' # transcript /\ transcript'.exists)
            => Deserialize(transcript'.data) = conversation_state']_vars
    /\ []((InvocationRunning /\ transcript.exists)
            => Extends(messages, Deserialize(transcript.data).messages))

\* C15 witness: the copy wrote the record, with the copied messages in it
C15_Witness ==
    /\ pc = "returned"
    /\ notice = Copied
    /\ transcript.exists
    /\ Deserialize(transcript.data) = conversation_state
    /\ messages[Len(messages) - 1] = Message("user", OtherInput)

(***************************************************************************)
(* Two invocations and one record                                          *)
(***************************************************************************)
\* the call was answered and the record written
Saved(res) == res.kind = "ok" /\ res.choices # <<>> /\ res.writable

\* the two turns that a saved simple request added
OwnTurns(input, res) == <<Message("user", input), FirstChoice(res.choices)>>

\* the first invocation has saved and is not over, and the second one holds
\* the state from which the first one started: it loaded before that save
RivalLoadedBeforeSave ==
    /\ pc = "returned" /\ Saved(request.res)
    /\ rival.pc = "single"
    /\ transcript = FileOf(Serialize(conversation_state))
    /\ messages = rival.state.messages \o OwnTurns(user_input, request.res)

\* the same with the two invocations exchanged
LoadedBeforeRivalSave ==
    /\ rival.pc = "returned" /\ Saved(rival.res)
    /\ pc = "single"
    /\ transcript = FileOf(Serialize(rival.state))
    /\ rival.state.messages = messages \o OwnTurns(rival.input, rival.res)

\* C19: every save writes the state of the invocation that saves; when both
\* invocations loaded the same record and one has saved, the save of the
\* other leaves as record what both loaded and the two turns of the later
\* one, in place of those of the earlier one.
C19_LastWriterWins ==
    /\ [][(transcript' # transcript /\ rival' # rival)
            => transcript' = FileOf(Serialize(rival'.state))]_vars
    /\ [][(transcript' # transcript /\ rival' = rival)
            => transcript' = FileOf(Serialize(conversation_state'))]_vars
    /\ [][(RivalLoadedBeforeSave /\ rival'.pc = "returned" /\ Saved(rival'.res))
            => /\ Deserialize(transcript'.data).messages =
                     rival.state.messages \o OwnTurns(rival.input, rival'.res)
               /\ Len(Deserialize(transcript'.data).messages) = Len(messages)
               /\ rival.input # user_input
                    => Message("user", user_input) #
                          Deserialize(transcript'.data).messages[Len(messages) - 1]]_vars
    /\ [][(LoadedBeforeRivalSave /\ pc' = "returned" /\ Saved(request'.res))
            => /\ Deserialize(transcript'.data).messages =
                     messages \o OwnTurns(user_input, request'.res)
               /\ Len(Deserialize(transcript'.data).messages) =
                     Len(rival.state.messages)
               /\ rival.input # user_input
                    => Message("user", rival.input) #
                          Deserialize(transcript'.data).messages[Len(messages) + 1]]_vars

\* C19 witness: both invocations loaded the same record and saved, the
\* second one later; the record is the second one's state and the first
\* one's question is not in it
C19_Witness ==
    /\ pc = "returned" /\ Saved(request.res)
    /\ rival.pc = "returned" /\ Saved(rival.res)
    /\ \E base \in {SubSeq(messages, 1, Len(messages) - 2)} :
          /\ messages = base \o OwnTurns(user_input, request.res)
          /\ rival.state.messages = base \o OwnTurns(rival.input, rival.res)
    /\ rival.input # user_input
    /\ transcript = FileOf(Serialize(rival.state))
    /\ \A i \in 1..Len(rival.state.messages) :
          rival.state.messages[i] # Message("user", user_input)

====
